---- MODULE Spec2Model ----
(***************************************************************************)
(* A model of the Mapsy map client: the Index page state (selected and     *)
(* current location, route, directions mode, destination), the SearchPanel *)
(* search box with its debounce timers, the DirectionsPanel autocomplete   *)
(* inputs and route calculation, and the MapView click / geolocation       *)
(* handlers and marker effects.                                            *)
(*                                                                         *)
(* Text is a sequence of string tokens (a character, or a word that is     *)
(* never looked into).  An optional value is <<>> (null) or <<v>>.         *)
(* Coordinates are integers in units of 10^-7 degree, one digit more than  *)
(* toFixed(6) keeps.                                                       *)
(***************************************************************************)
EXTENDS Integers, Sequences, FiniteSets, TLC

\* ------------------------------------------------------------------ bounds
\* input events, directions toggles, route calculations, events that deliver
\* a Location (map clicks, picks of a recent search, device position
\* requests), the last value of Date.now(), and clicks on a step of the
\* directions list
MaxInputs == 2
MaxToggles == 2
MaxCalcs == 3
MaxLocations == 2
MaxClock == 1
MaxStepClicks == 3

\* ------------------------------------------------------------- text helpers
Null == <<>>
Some(v) == <<v>>

Whitespace == {" "}

RECURSIVE TrimStart(_)
TrimStart(s) ==
  IF s # <<>> /\ Head(s) \in Whitespace THEN TrimStart(Tail(s)) ELSE s

RECURSIVE TrimEnd(_)
TrimEnd(s) ==
  IF s # <<>> /\ s[Len(s)] \in Whitespace THEN TrimEnd(SubSeq(s, 1, Len(s) - 1)) ELSE s

\* String.prototype.trim
TrimIdentity(s) == s
Trim(s) == TrimEnd(TrimStart(s))

\* display_name.split(',')[0]
RECURSIVE SplitFirst(_)
SplitFirst(s) ==
  IF s = <<>> \/ Head(s) = "," THEN <<>> ELSE <<Head(s)>> \o SplitFirst(Tail(s))

\* ------------------------------------------------------- the input universe
\* What the user can type into a box: nothing, blanks, "Central", "Central Park".
Queries == { <<>>, <<" ">>, <<"Central">>, <<"Central", " ", "Park">>, <<" ", "Central">> }

Boxes == {"search", "origin", "destination"}

\* The geocoding provider's ranked candidates for a query (a stable provider:
\* the same query gives the same list).  The second item carries no place_id.
ProviderItems(q) ==
  << [place_id |-> Some(Len(q)), display_name |-> Some(Trim(q) \o <<",", " ", "NYC">>),
      lon |-> -740060000, lat |-> 407128000, type |-> Some("city")],
     [place_id |-> Null, display_name |-> Some(Trim(q) \o <<",", " ", "USA">>),
      lon |-> -739000000, lat |-> 408000000, type |-> Null] >>

\* How a forward-search call can end: a candidate list, a rejected fetch, or a
\* body that is not the expected JSON (data.map or display_name.split throws).
SearchOutcomes == {"ok", "error", "malformed"}

\* Two Locations: the device position as getCurrentLocation names it, and a
\* place picked from a candidate list.
LocHome ==
  [ id |-> "current-location", name |-> <<"Current Location">>,
    address |-> <<"1 Main St", ",", " ", "NYC">>,
    coordinates |-> <<-740000000, 407000000>> ]
LocPark ==
  [ id |-> "7", name |-> <<"Central", " ", "Park">>,
    address |-> <<"Central", " ", "Park", ",", " ", "NYC">>,
    coordinates |-> <<-739000000, 408000000>> ]

\* The routing provider's route for a pair of endpoints.  The provider snaps
\* each endpoint to the nearest road: snap is how far the snapped waypoints
\* lie from the requested ones (0: the endpoints are on a road).  OSRM steps
\* carry a maneuver without an instruction text unless asked.
SnapOffsets == {0, 30}

Snapped(coordinates, snap) == << coordinates[1] + snap, coordinates[2] - snap >>

ProviderRoute(o, d, snap) ==
  LET from == Snapped(o.coordinates, snap)
      to == Snapped(d.coordinates, snap)
      mid == << (o.coordinates[1] + d.coordinates[1]) \div 2, d.coordinates[2] >> IN
  [ distance |-> 14200, duration |-> 1260,
    geometry |-> [coordinates |-> << from, mid, to >>],
    legs |-> << [ steps |-> <<
      [ maneuver |-> [instruction |-> Some(<<"Head east">>)], distance |-> 9000,
        duration |-> 800, geometry |-> [coordinates |-> << from, mid >>] ],
      [ maneuver |-> [instruction |-> Null], distance |-> 5200,
        duration |-> 460, geometry |-> [coordinates |-> << mid, to >>] ] >> ] >> ]

\* How a routing call can end: "ok" a body with routes; "noroute" a body with
\* code "NoRoute" and no routes; "empty" a body whose routes list is empty or
\* missing under another code; "error" a rejected fetch or a body that is not
\* JSON; "malformed" a body whose first route lacks legs.
RouteOutcomes == {"ok", "noroute", "empty", "error", "malformed"}

\* Where the user can click the map and where the device can be, as the
\* events report them.
ClickPoints == { [lat |-> 407100004, lng |-> -740000000],
                 [lat |-> 408000000, lng |-> -739000006] }
DevicePositions == { [latitude |-> 407000005, longitude |-> -740000000] }

\* How a reverse-geocoding call can end: "ok" a body with an address
\* (display_name, or a first feature); "commafirst" a body whose address
\* has nothing before its first comma; "noname" a JSON body without one
\* (Nominatim's {error: ...}, an empty features list); "error" a rejected
\* fetch or a body that is not JSON.
ReverseOutcomes == {"ok", "commafirst", "noname", "error"}
ProviderDisplayName == <<"123 Main St", ",", " ", "NYC">>
ProviderUnheadedName == <<",", " ", "NYC">>

\* The body of a reverse-geocoding answer for the point (lat, lng): the
\* provider names the nearest address and reports that address's position.
ProviderReverse(lat, lng, outcome) ==
  [ display_name |-> CASE outcome = "ok" -> Some(ProviderDisplayName)
                      [] outcome = "commafirst" -> Some(ProviderUnheadedName)
                      [] OTHER -> Null,
    lat |-> lat + 3, lon |-> lng - 2 ]

\* How a device position request can end.
PositionErrors == {"PERMISSION_DENIED", "POSITION_UNAVAILABLE", "TIMEOUT"}

\* A place an earlier session picked from a candidate list.
StoredPlace(n) ==
  [ id |-> ToString(n), name |-> <<"Place", " ", ToString(n)>>,
    address |-> <<"Place", " ", ToString(n), ",", " ", "NYC">>,
    coordinates |-> <<-740000000 - n, 407000000 + n>> ]

\* The first candidate of the query "Central Park", picked earlier.
StoredCentralPark ==
  [ id |-> "3", name |-> <<"Central", " ", "Park">>,
    address |-> <<"Central", " ", "Park", ",", " ", "NYC">>,
    coordinates |-> <<-740060000, 407128000>> ]

\* A full list of recent searches.
FullRecents == << LocPark, LocHome, StoredCentralPark, StoredPlace(101), StoredPlace(102) >>

\* Locations left in localStorage by earlier sessions.
StoredRecents == { <<>>, <<LocPark>>, <<LocPark, LocHome>>, FullRecents }

\* mockRoute's numbers
MockDistance == 5200
MockDuration == 780
MockOffset == 100000

VARIABLES
  \* which DirectionsPanel is deployed: "errors" (types/maps.ts, surfaces
  \* routeError) or "fallback" (components/DirectionsPanel.tsx, mock route)
  panelVariant,
  \* Index
  selectedLocation, currentLocation,
  isDirectionsMode, route, destination,
  \* DirectionsPanel
  actualOrigin, actualDestination, isCalculating, routeError,
  calcs, calcCount, lastDone,
  \* the calculations that have ended, in order, each with the route it
  \* handed to onRouteCalculated and the message it set (null: none)
  doneLog,
  \* which MapView is deployed: "leaflet" (unnamed/part_002) or "mapbox"
  \* (unnamed/part_001)
  mapVariant,
  \* mapInit: "idle" (token dialog open), "loading" (initializeMap awaiting),
  \* "ready" (mapRef.current set, click handler registered), "absent"
  \* (initializeMap returned before creating a map)
  mapInit,
  \* Date.now(), reverse-geocoding calls in flight, the pending device
  \* position request
  now, reverseLookups, clickCount, isLoadingLocation, positionReq, fixCount,
  \* the reverse-geocoding call that ended last and the Location its handler
  \* delivered (null: none)
  lastReverse,
  \* pending import('leaflet').then callbacks, the layers on the map,
  \* markersRef.current, the viewport, the last toast
  effectQ, layers, markersRef, view, toast,
  \* SearchPanel recent searches: the state and localStorage
  recentSearches, recentStore, selectCount,
  \* Index.zoomToCoordinates (null, or the array a step click passed: which
  \* array it is, and its value), the pending setTimeout callbacks that
  \* clear it, the panel's selectedStepId, the number of step clicks and of
  \* setView(..., 18) calls made by the zoom effect
  zoomToCoordinates, focusTimers, selectedStepId, stepClicks, focusLog,
  \* panel instance mounted in the sidebar (a toggle unmounts one panel and
  \* mounts a fresh instance of the other)
  panelGen,
  \* SearchPanel / DirectionsPanel inputs
  inputText, results, isLoading,
  timers, lookups,
  \* bookkeeping of requests: the number of the last request sent per box and
  \* the number of the request whose response is shown (0: none)
  lastIssued, resultsGen, inputCount

indexVars == <<selectedLocation, currentLocation, isDirectionsMode, route, destination>>
panelVars == <<actualOrigin, actualDestination, isCalculating, routeError>>
calcVars == <<calcs, calcCount, lastDone, doneLog>>
searchVars == <<inputText, results, isLoading, timers, lookups, lastIssued, resultsGen, inputCount>>
mapCfgVars == <<mapVariant, mapInit>>
geoVars == <<now, reverseLookups, clickCount, isLoadingLocation, positionReq, fixCount,
            lastReverse>>
drawVars == <<effectQ, layers, markersRef, view>>
mapVars == <<mapCfgVars, geoVars, drawVars, toast>>
recentVars == <<recentSearches, recentStore, selectCount>>
focusVars == <<zoomToCoordinates, focusTimers, selectedStepId, stepClicks, focusLog>>
vars == <<panelVariant, panelGen, indexVars, panelVars, calcVars, searchVars, mapVars, recentVars, focusVars>>
nonSearchVars == <<panelVariant, panelGen, indexVars, panelVars, calcVars, mapVars, recentVars, focusVars>>

\* The boxes of the panel that is mounted.
MountedBoxes == IF isDirectionsMode THEN {"origin", "destination"} ELSE {"search"}

\* results.map((item, index) => ({id, name, address, coordinates, type}))
ItemToResult(item, index) ==
  [ id |-> IF item.place_id # Null THEN ToString(item.place_id[1]) ELSE ToString(index),
    name |-> SplitFirst(item.display_name[1]),
    address |-> item.display_name[1],
    coordinates |-> <<item.lon, item.lat>> ]

MapItems(items) == [ i \in 1..Len(items) |-> ItemToResult(items[i], i - 1) ]

\* ------------------------------------------------------------------- Init
SearchInit ==
  /\ inputText = [b \in Boxes |-> <<>>]
  /\ results = [b \in Boxes |-> <<>>]
  /\ isLoading = FALSE
  /\ timers = <<>>
  /\ lookups = {}
  /\ lastIssued = [b \in Boxes |-> 0]
  /\ resultsGen = [b \in Boxes |-> 0]
  /\ inputCount = 0

IndexInit ==
  /\ selectedLocation = Null
  /\ currentLocation = Null
  /\ isDirectionsMode = FALSE
  /\ route = Null
  /\ destination = Null
  /\ panelGen = 0

PanelInit ==
  /\ actualOrigin = Null
  /\ actualDestination = Null
  /\ isCalculating = FALSE
  /\ routeError = Null

FocusInit ==
  /\ zoomToCoordinates = Null
  /\ focusTimers = 0
  /\ selectedStepId = Null
  /\ stepClicks = 0
  /\ focusLog = 0

CalcInit ==
  /\ calcs = {}
  /\ calcCount = 0
  /\ lastDone = "none"
  /\ doneLog = <<>>

\* L.map(..., {center: [40.7128, -74.0060], zoom: 10})
InitialView == [ kind |-> "center", points |-> << <<407128000, -740060000>> >>, zoom |-> 10 ]

\* MapView as mounted: the Leaflet view starts initializeMap in its mount
\* effect, the Mapbox view waits for the token.
MapInit(variant) ==
  /\ mapVariant = variant
  /\ mapInit = IF variant = "leaflet" THEN "loading" ELSE "idle"
  /\ now = 0
  /\ reverseLookups = {}
  /\ clickCount = 0
  /\ isLoadingLocation = FALSE
  /\ positionReq = Null
  /\ fixCount = 0
  /\ lastReverse = Null
  /\ effectQ = <<>>
  /\ layers = <<>>
  /\ markersRef = <<>>
  /\ view = InitialView
  /\ toast = Null

RecentInit ==
  /\ recentStore \in StoredRecents
  /\ recentSearches = recentStore
  /\ selectCount = 0

\* The page as first rendered.
Init ==
  /\ panelVariant \in {"errors", "fallback"}
  /\ \E v \in {"leaflet", "mapbox"} : MapInit(v)
  /\ IndexInit /\ PanelInit /\ CalcInit /\ FocusInit /\ SearchInit /\ RecentInit

\* ---------------------------------------------------------------- actions
\* searchLocations(query) up to its fetch: a blank query clears the list and
\* returns; otherwise the request is sent.  State setters of an unmounted
\* instance do nothing.  outcome is how the provider will end this call.
SendLookup(box, inst, q, outcome) ==
  LET live == inst = panelGen /\ box \in MountedBoxes IN
  IF Trim(q) = <<>>
  THEN /\ results' = IF live THEN [results EXCEPT ![box] = <<>>] ELSE results
       /\ resultsGen' = IF live THEN [resultsGen EXCEPT ![box] = 0] ELSE resultsGen
       /\ UNCHANGED <<lookups, lastIssued, isLoading>>
  ELSE /\ lookups' = lookups \cup
            {[box |-> box, inst |-> inst, query |-> q, gen |-> lastIssued[box] + 1,
              outcome |-> outcome]}
       /\ lastIssued' = [lastIssued EXCEPT ![box] = @ + 1]
       /\ isLoading' = IF live /\ box = "search" THEN TRUE ELSE isLoading
       /\ UNCHANGED <<results, resultsGen>>

\* SearchPanel.handleSearchInputChange: the timer it sets is never cleared
\* (the function it returns is dropped by the onChange caller).
HandleSearchInputChange(q) ==
  /\ ~isDirectionsMode
  /\ q # inputText["search"]
  /\ inputCount < MaxInputs
  /\ inputCount' = inputCount + 1
  /\ inputText' = [inputText EXCEPT !["search"] = q]
  /\ timers' = Append(timers, [inst |-> panelGen, query |-> q])
  /\ UNCHANGED <<results, isLoading, lookups, lastIssued, resultsGen, nonSearchVars>>

\* A debounce timer expires: timers of one delay expire in the order set.
DebounceFire(outcome) ==
  /\ timers # <<>>
  /\ timers' = Tail(timers)
  /\ SendLookup("search", Head(timers).inst, Head(timers).query, outcome)
  /\ UNCHANGED <<inputText, inputCount, nonSearchVars>>

\* DirectionsPanel.handleOriginInputChange / handleDestinationInputChange
HandleAutocompleteInputChange(box, v, outcome) ==
  /\ isDirectionsMode
  /\ panelVariant = "errors"
  /\ box \in {"origin", "destination"}
  /\ v # inputText[box]
  /\ inputCount < MaxInputs
  /\ inputCount' = inputCount + 1
  /\ inputText' = [inputText EXCEPT ![box] = v]
  /\ SendLookup(box, panelGen, v, outcome)
  /\ UNCHANGED <<timers, nonSearchVars>>

\* The provider's answer reaches the awaiting searchLocations call.
\* try: setSearchResults(results) / catch: setSearchResults([]) / finally:
\* setIsLoading(false); for an autocomplete input, setOriginResults(results)
\* or setDestinationResults(results) with [] on a failure.
CommittedListKeepsOld(r) ==
  IF r.outcome = "ok" THEN MapItems(ProviderItems(r.query)) ELSE results[r.box]

CommittedList(r) ==
  IF r.outcome = "ok" THEN MapItems(ProviderItems(r.query)) ELSE <<>>

LookupDone(r) ==
  LET live == r.inst = panelGen /\ r.box \in MountedBoxes
      list == CommittedList(r)
  IN
  /\ r \in lookups
  /\ lookups' = lookups \ {r}
  /\ results' = IF live THEN [results EXCEPT ![r.box] = list] ELSE results
  /\ resultsGen' = IF live THEN [resultsGen EXCEPT ![r.box] = r.gen] ELSE resultsGen
  /\ isLoading' = IF live /\ r.box = "search" THEN FALSE ELSE isLoading
  /\ UNCHANGED <<inputText, timers, lastIssued, inputCount, nonSearchVars>>

\* a toggle that keeps the pending destination
HandleDirectionsToggleKeepsDestination ==
  LET entering == ~isDirectionsMode
      adopt == entering /\ currentLocation # Null IN
  /\ panelGen < MaxToggles
  /\ panelGen' = panelGen + 1
  /\ isDirectionsMode' = ~isDirectionsMode
  /\ route' = Null
  /\ destination' = destination
  /\ inputText' = [b \in Boxes |->
        IF b = "origin" /\ adopt THEN currentLocation[1].address ELSE <<>>]
  /\ results' = [b \in Boxes |-> <<>>]
  /\ resultsGen' = [b \in Boxes |-> 0]
  /\ isLoading' = FALSE
  /\ actualOrigin' = IF adopt /\ panelVariant = "errors" THEN currentLocation ELSE Null
  /\ actualDestination' = Null
  /\ isCalculating' = FALSE
  /\ routeError' = Null
  /\ recentSearches' = IF entering THEN <<>> ELSE recentStore
  /\ UNCHANGED <<timers, lookups, lastIssued, inputCount>>
  /\ UNCHANGED <<panelVariant, selectedLocation, currentLocation, calcVars>>
  /\ selectedStepId' = Null
  /\ UNCHANGED <<mapVars, recentStore, selectCount>>
  /\ UNCHANGED <<zoomToCoordinates, focusTimers, stepClicks, focusLog>>

\* Index.handleDirectionsToggle; the sidebar swaps SearchPanel and
\* DirectionsPanel, so the panel state starts afresh.  A DirectionsPanel
\* that mounts runs its origin / destination prop effects: the origin prop
\* is currentLocation, the destination prop was just set to null.
HandleDirectionsToggle ==
  LET entering == ~isDirectionsMode
      adopt == entering /\ currentLocation # Null IN
  /\ panelGen < MaxToggles
  /\ panelGen' = panelGen + 1
  /\ isDirectionsMode' = ~isDirectionsMode
  /\ route' = Null
  /\ destination' = Null
  /\ inputText' = [b \in Boxes |->
        IF b = "origin" /\ adopt THEN currentLocation[1].address ELSE <<>>]
  /\ results' = [b \in Boxes |-> <<>>]
  /\ resultsGen' = [b \in Boxes |-> 0]
  /\ isLoading' = FALSE
  /\ actualOrigin' = IF adopt /\ panelVariant = "errors" THEN currentLocation ELSE Null
  /\ actualDestination' = Null
  /\ isCalculating' = FALSE
  /\ routeError' = Null
  /\ recentSearches' = IF entering THEN <<>> ELSE recentStore
  /\ UNCHANGED <<timers, lookups, lastIssued, inputCount>>
  /\ UNCHANGED <<panelVariant, selectedLocation, currentLocation, calcVars>>
  /\ selectedStepId' = Null
  /\ UNCHANGED <<mapVars, recentStore, selectCount>>
  /\ UNCHANGED <<zoomToCoordinates, focusTimers, stepClicks, focusLog>>

\* ----------------------------------------------------------- map drawing
\* mapRef.current is set.  The Mapbox view calls initializeMap from
\* handleTokenSubmit while the token dialog is still what is rendered, so
\* mapContainer.current is null and no map is ever created there.
MapReady == mapInit = "ready"

\* Leaflet takes [lat, lng]; coordinates are [lng, lat].
LatLng(coordinates) == << coordinates[2], coordinates[1] >>

MarkerLayer(role, loc, popup) ==
  [ role |-> role, points |-> << LatLng(loc.coordinates) >>, popup |-> popup ]

PolylineLayer(rt) ==
  [ role |-> "route",
    points |-> [ i \in 1..Len(rt.geometry) |-> LatLng(rt.geometry[i]) ],
    popup |-> <<>> ]

\* The MapView effects that run after a render in which selectedLocation,
\* currentLocation or route changed to sel, cur, rt (null: unchanged or
\* null): each passes its `value && mapRef.current` guard and leaves an
\* import('leaflet').then callback.  moveTo is a setView the handler itself
\* made before the render.
DrawAfterRender(sel, cur, rt, moveTo) ==
  /\ effectQ' =
       IF MapReady
       THEN effectQ
            \o (IF sel # Null
                THEN << MarkerLayer("selected", sel[1], sel[1].name) >> ELSE <<>>)
            \o (IF cur # Null
                THEN << MarkerLayer("current", cur[1], <<"Current Location">>) >> ELSE <<>>)
            \o (IF rt # Null THEN << PolylineLayer(rt[1]) >> ELSE <<>>)
       ELSE effectQ
  /\ view' = IF MapReady /\ moveTo # Null THEN moveTo[1] ELSE view
  /\ UNCHANGED <<layers, markersRef>>

InSeq(x, seq) == \E i \in 1..Len(seq) : seq[i] = x

\* clearMarkers: every layer markersRef holds is taken off the map.
ClearedLayers == SelectSeq(layers, LAMBDA l : ~InSeq(l, markersRef))

\* The oldest pending import('leaflet').then callback runs.  Callbacks of
\* one module promise run in the order they were attached.
RunEffect ==
  LET e == Head(effectQ) IN
  /\ effectQ # <<>>
  /\ effectQ' = Tail(effectQ)
  /\ IF e.role = "selected"
     THEN /\ layers' = Append(ClearedLayers, e)
          /\ markersRef' = << e >>
          /\ view' = [ kind |-> "center", points |-> e.points, zoom |-> 15 ]
     ELSE /\ layers' = Append(layers, e)
          /\ markersRef' = Append(markersRef, e)
          /\ view' = IF e.role = "route"
                     THEN [ kind |-> "fit", points |-> e.points, zoom |-> 0 ]
                     ELSE view
  /\ UNCHANGED <<panelVariant, panelGen, indexVars, panelVars, calcVars, searchVars>>
  /\ UNCHANGED <<mapCfgVars, geoVars, toast, recentVars, focusVars>>

\* ------------------------------------------------------------- MapView
\* Number.prototype.toFixed(6) of a coordinate held in units of 1e-7 degree:
\* the nearest multiple of 1e-6, written with six decimals.
Abs(n) == IF n < 0 THEN 0 - n ELSE n

Round6(v) == (Abs(v) + 5) \div 10

Pad6(f) ==
  CASE f < 10     -> "00000" \o ToString(f)
    [] f < 100    -> "0000" \o ToString(f)
    [] f < 1000   -> "000" \o ToString(f)
    [] f < 10000  -> "00" \o ToString(f)
    [] f < 100000 -> "0" \o ToString(f)
    [] OTHER      -> ToString(f)

ToFixed6(v) ==
  LET m == Round6(v) IN
  (IF v < 0 THEN "-" ELSE "")
    \o ToString(m \div 1000000) \o "." \o Pad6(m % 1000000)

\* `${lat.toFixed(6)}, ${lng.toFixed(6)}`
FormatCoords(lat, lng) == << ToFixed6(lat), ",", " ", ToFixed6(lng) >>

\* const coordinates: [number, number] = [lng, lat]
CoordinatesLatFirst(lat, lng) == << lat, lng >>

Coordinates(lat, lng) == << lng, lat >>

\* The onLocationSelect the Leaflet click handler calls is the one of the
\* first render: the handler is registered once, by the mount effect.
ClickClosureMode == FALSE
ClickClosureCurrent == Null

\* The state of Index as one record, and the state its setters leave.
IndexState ==
  [ selectedLocation |-> selectedLocation, currentLocation |-> currentLocation,
    route |-> route, isDirectionsMode |-> isDirectionsMode,
    destination |-> destination, zoomToCoordinates |-> zoomToCoordinates ]

\* handleLocationSelect as the closure that saw isDirectionsMode = mode and
\* currentLocation = current
SelectLocation(st, location, mode, current) ==
  [ st EXCEPT !.selectedLocation = Some(location),
              !.destination = IF mode /\ current # Null
                              THEN Some(location) ELSE st.destination ]

\* a handleCurrentLocationFound that also drops the route
FoundCurrentLocationClearsRoute(st, location) ==
  [ st EXCEPT !.currentLocation = Some(location), !.route = Null ]

\* handleCurrentLocationFound
FoundCurrentLocation(st, location) == [ st EXCEPT !.currentLocation = Some(location) ]

\* handleRouteCalculated
SetRoute(st, calculatedRoute) == [ st EXCEPT !.route = Some(calculatedRoute) ]

\* Index.handleLocationSelect, as the closure that saw isDirectionsMode =
\* mode and currentLocation = current.  A destination that is set reaches a
\* mounted DirectionsPanel through its destination prop effect.
HandleLocationSelect(location, mode, current) ==
  LET sets == mode /\ current # Null
      st == SelectLocation(IndexState, location, mode, current) IN
  /\ selectedLocation' = st.selectedLocation
  /\ destination' = st.destination
  /\ inputText' = IF sets /\ isDirectionsMode
                  THEN [inputText EXCEPT !["destination"] = location.address]
                  ELSE inputText
  /\ actualDestination' = IF sets /\ isDirectionsMode /\ panelVariant = "errors"
                          THEN Some(location) ELSE actualDestination
  /\ UNCHANGED <<currentLocation, isDirectionsMode, route>>
  /\ UNCHANGED <<actualOrigin, isCalculating, routeError>>

\* Index.handleCurrentLocationFound; a mounted DirectionsPanel takes the new
\* origin prop in its origin effect.
HandleCurrentLocationFound(location) ==
  /\ currentLocation' = FoundCurrentLocation(IndexState, location).currentLocation
  /\ route' = FoundCurrentLocation(IndexState, location).route
  /\ inputText' = IF isDirectionsMode
                  THEN [inputText EXCEPT !["origin"] = location.address]
                  ELSE inputText
  /\ actualOrigin' = IF isDirectionsMode /\ panelVariant = "errors"
                     THEN Some(location) ELSE actualOrigin
  /\ UNCHANGED <<selectedLocation, isDirectionsMode, destination>>
  /\ UNCHANGED <<actualDestination, isCalculating, routeError>>

\* initializeMap of the Leaflet view runs to its end: the map is created
\* and the click handler registered, or the import or L.map throws and the
\* catch block reports it.
MapInitDone(ok) ==
  /\ mapVariant = "leaflet" /\ mapInit = "loading"
  /\ mapInit' = IF ok THEN "ready" ELSE "absent"
  /\ toast' = IF ok THEN toast ELSE Some("Failed to initialize map.")
  /\ UNCHANGED <<mapVariant, geoVars, drawVars>>
  /\ UNCHANGED <<panelVariant, panelGen, indexVars, panelVars, calcVars, searchVars,
                 recentVars, focusVars>>

\* Mapbox view, handleTokenSubmit: the dialog closes; initializeMap(token)
\* finds mapContainer.current null, the container not being rendered while
\* the dialog is, and returns.
HandleTokenSubmit ==
  /\ mapVariant = "mapbox" /\ mapInit = "idle"
  /\ mapInit' = "absent"
  /\ UNCHANGED <<mapVariant, geoVars, drawVars, toast>>
  /\ UNCHANGED <<panelVariant, panelGen, indexVars, panelVars, calcVars, searchVars,
                 recentVars, focusVars>>

\* The map's click handler up to its fetch.
MapClick(p, outcome) ==
  /\ MapReady
  /\ clickCount + selectCount + fixCount < MaxLocations
  /\ clickCount' = clickCount + 1
  /\ reverseLookups' = reverseLookups \cup
       {[ kind |-> "click", n |-> clickCount + fixCount + 1,
          lat |-> p.lat, lng |-> p.lng, outcome |-> outcome ]}
  /\ UNCHANGED <<now, isLoadingLocation, positionReq, fixCount, lastReverse>>
  /\ UNCHANGED <<mapCfgVars, drawVars, toast>>
  /\ UNCHANGED <<panelVariant, panelGen, indexVars, panelVars, calcVars, searchVars,
                 recentVars, focusVars>>

\* the click handler's Location with the whole display name as its name
ClickLocationWholeName(r, t) ==
  LET data == ProviderReverse(r.lat, r.lng, r.outcome)
      named == r.outcome # "error" /\ data.display_name # Null IN
  [ id |-> ToString(t),
    name |-> IF named THEN data.display_name[1] ELSE <<"Selected Location">>,
    address |-> IF named THEN data.display_name[1] ELSE FormatCoords(r.lat, r.lng),
    coordinates |-> Coordinates(r.lat, r.lng) ]

\* The Location the Leaflet click handler builds from the body data (try
\* block) or without one (catch block), t being Date.now().
ClickLocation(r, t) ==
  LET data == ProviderReverse(r.lat, r.lng, r.outcome)
      named == r.outcome # "error" /\ data.display_name # Null IN
  [ id |-> ToString(t),
    name |-> IF named /\ SplitFirst(data.display_name[1]) # <<>>
             THEN SplitFirst(data.display_name[1]) ELSE <<"Selected Location">>,
    address |-> IF named THEN data.display_name[1] ELSE FormatCoords(r.lat, r.lng),
    coordinates |-> Coordinates(r.lat, r.lng) ]

\* The Location getCurrentPosition's success callback builds; the Mapbox
\* view builds none when the fetch or response.json() throws.
FixLocation(r) ==
  LET data == ProviderReverse(r.lat, r.lng, r.outcome)
      named == r.outcome # "error" /\ data.display_name # Null IN
  IF mapVariant = "mapbox" /\ r.outcome = "error"
  THEN Null
  ELSE Some([ id |-> "current-location",
              name |-> <<"Current Location">>,
              address |-> IF named THEN data.display_name[1]
                          ELSE FormatCoords(r.lat, r.lng),
              coordinates |-> Coordinates(r.lat, r.lng) ])

\* The reverse-geocoding fetch of a map click settles and the handler runs
\* to its end.
ClickReverseDone(r, t) ==
  LET location == ClickLocation(r, t) IN
  /\ r \in reverseLookups /\ r.kind = "click"
  /\ t \in now..MaxClock
  /\ now' = t
  /\ reverseLookups' = reverseLookups \ {r}
  /\ lastReverse' = Some([ req |-> r, location |-> Some(location) ])
  /\ HandleLocationSelect(location, ClickClosureMode, ClickClosureCurrent)
  /\ DrawAfterRender(Some(location), Null, Null, Null)
  /\ UNCHANGED <<clickCount, isLoadingLocation, positionReq, fixCount>>
  /\ UNCHANGED <<mapCfgVars, toast, recentVars, focusVars>>
  /\ UNCHANGED <<panelVariant, panelGen, calcVars>>
  /\ UNCHANGED <<results, isLoading, timers, lookups, lastIssued, resultsGen, inputCount>>

\* The same for the fetch of a device position fix.
FixReverseDone(r) ==
  LET location == FixLocation(r)
      center == [ kind |-> "center",
                  points |-> << LatLng(Coordinates(r.lat, r.lng)) >>, zoom |-> 15 ] IN
  /\ r \in reverseLookups /\ r.kind = "fix"
  /\ reverseLookups' = reverseLookups \ {r}
  /\ lastReverse' = Some([ req |-> r, location |-> location ])
  /\ isLoadingLocation' = FALSE
  /\ IF location # Null
     THEN /\ HandleCurrentLocationFound(location[1])
          /\ DrawAfterRender(Null, location, Null, Some(center))
     ELSE /\ UNCHANGED <<indexVars, panelVars, inputText, drawVars>>
  /\ UNCHANGED <<now, clickCount, positionReq, fixCount>>
  /\ UNCHANGED <<mapCfgVars, toast, recentVars, focusVars>>
  /\ UNCHANGED <<panelVariant, panelGen, calcVars>>
  /\ UNCHANGED <<results, isLoading, timers, lookups, lastIssued, resultsGen, inputCount>>

\* getCurrentLocation up to navigator.geolocation.getCurrentPosition.  The
\* button is disabled while isLoadingLocation; the Mapbox view shows it once
\* the token dialog is closed.
GetCurrentLocation ==
  /\ ~isLoadingLocation
  /\ mapInit # "idle"
  /\ clickCount + selectCount + fixCount < MaxLocations
  /\ fixCount' = fixCount + 1
  /\ isLoadingLocation' = TRUE
  /\ positionReq' = Some("pending")
  /\ UNCHANGED <<now, reverseLookups, clickCount, lastReverse>>
  /\ UNCHANGED <<mapCfgVars, drawVars, toast>>
  /\ UNCHANGED <<panelVariant, panelGen, indexVars, panelVars, calcVars, searchVars,
                 recentVars, focusVars>>

\* getCurrentLocation in a browser without navigator.geolocation: the flag
\* is raised and lowered in the same call, a notification is shown.
GeolocationUnsupported ==
  /\ ~isLoadingLocation
  /\ mapInit # "idle"
  /\ clickCount + selectCount + fixCount < MaxLocations
  /\ fixCount' = fixCount + 1
  /\ isLoadingLocation' = FALSE
  /\ toast' = Some("Geolocation is not supported by this browser.")
  /\ UNCHANGED <<now, reverseLookups, clickCount, positionReq, lastReverse>>
  /\ UNCHANGED <<mapCfgVars, drawVars>>
  /\ UNCHANGED <<panelVariant, panelGen, indexVars, panelVars, calcVars, searchVars,
                 recentVars, focusVars>>

\* The message of getCurrentPosition's error callback.
PositionErrorMessage(code) ==
  IF mapVariant = "mapbox"
  THEN "Unable to retrieve your location. Please enable location services."
  ELSE CASE code = "PERMISSION_DENIED" ->
              "Location access denied. Please enable location permissions."
         [] code = "POSITION_UNAVAILABLE" -> "Location information is unavailable."
         [] code = "TIMEOUT" -> "Location request timed out."
         [] OTHER -> "Unable to retrieve your location."

\* The device answers with a position: the success callback sends the
\* reverse-geocoding request.
PositionFound(pos, outcome) ==
  /\ positionReq # Null
  /\ positionReq' = Null
  /\ reverseLookups' = reverseLookups \cup
       {[ kind |-> "fix", n |-> clickCount + fixCount + 1,
          lat |-> pos.latitude, lng |-> pos.longitude, outcome |-> outcome ]}
  /\ UNCHANGED <<now, clickCount, isLoadingLocation, fixCount, lastReverse>>
  /\ UNCHANGED <<mapCfgVars, drawVars, toast>>
  /\ UNCHANGED <<panelVariant, panelGen, indexVars, panelVars, calcVars, searchVars,
                 recentVars, focusVars>>

\* The device answers with an error.
PositionFailed(code) ==
  /\ positionReq # Null
  /\ positionReq' = Null
  /\ toast' = Some(PositionErrorMessage(code))
  /\ isLoadingLocation' = FALSE
  /\ UNCHANGED <<now, reverseLookups, clickCount, fixCount, lastReverse>>
  /\ UNCHANGED <<mapCfgVars, drawVars>>
  /\ UNCHANGED <<panelVariant, panelGen, indexVars, panelVars, calcVars, searchVars,
                 recentVars, focusVars>>

\* SearchPanel.handleRecentClick.  SearchPanel is rendered with the
\* handleLocationSelect of the current render; setting the state to the
\* object it already holds causes no render.
HandleRecentClick(location) ==
  /\ ~isDirectionsMode
  /\ InSeq(location, recentSearches)
  /\ clickCount + selectCount + fixCount < MaxLocations
  /\ selectCount' = selectCount + 1
  /\ HandleLocationSelect(location, isDirectionsMode, currentLocation)
  /\ DrawAfterRender(IF selectedLocation # Some(location) THEN Some(location) ELSE Null,
                     Null, Null, Null)
  /\ UNCHANGED <<recentSearches, recentStore, focusVars>>
  /\ UNCHANGED <<mapCfgVars, geoVars, toast>>
  /\ UNCHANGED <<panelVariant, panelGen, calcVars>>
  /\ UNCHANGED <<results, isLoading, timers, lookups, lastIssued, resultsGen, inputCount>>

\* saveToRecent without the filter on the id
SaveToRecentUnfiltered(location) ==
  LET updated == << location >> \o recentSearches IN
  SubSeq(updated, 1, IF Len(updated) < 5 THEN Len(updated) ELSE 5)

\* SearchPanel.saveToRecent: the list it stores,
\* [location, ...recentSearches.filter(r => r.id !== location.id)].slice(0, 5)
SaveToRecent(location) ==
  LET updated == << location >>
                   \o SelectSeq(recentSearches, LAMBDA r : r.id # location.id) IN
  SubSeq(updated, 1, IF Len(updated) < 5 THEN Len(updated) ELSE 5)

\* SearchPanel.handleLocationClick on a listed candidate: a new Location
\* object goes to Index.handleLocationSelect of the current render and to
\* saveToRecent; the query and the list are emptied.
HandleLocationClick(result) ==
  LET location == [ id |-> result.id, name |-> result.name,
                    address |-> result.address, coordinates |-> result.coordinates ]
      st == SelectLocation(IndexState, location, isDirectionsMode, currentLocation) IN
  /\ ~isDirectionsMode
  /\ InSeq(result, results["search"])
  /\ clickCount + selectCount + fixCount < MaxLocations
  /\ selectCount' = selectCount + 1
  /\ selectedLocation' = st.selectedLocation
  /\ destination' = st.destination
  /\ DrawAfterRender(Some(location), Null, Null, Null)
  /\ recentSearches' = SaveToRecent(location)
  /\ recentStore' = SaveToRecent(location)
  /\ inputText' = [inputText EXCEPT !["search"] = <<>>]
  /\ results' = [results EXCEPT !["search"] = <<>>]
  /\ resultsGen' = [resultsGen EXCEPT !["search"] = 0]
  /\ UNCHANGED <<currentLocation, isDirectionsMode, route, panelVars>>
  /\ UNCHANGED <<isLoading, timers, lookups, lastIssued, inputCount>>
  /\ UNCHANGED <<mapCfgVars, geoVars, toast, focusVars>>
  /\ UNCHANGED <<panelVariant, panelGen, calcVars>>

\* ----------------------------------------------------------- step focus
\* The route object Index holds: the one the last calculation that handed
\* over a route built.  Each calculation builds fresh step.coordinates
\* arrays.
RouteRef ==
  LET built == { i \in 1..Len(doneLog) : doneLog[i].route # Null } IN
  IF built = {} THEN 0 ELSE CHOOSE i \in built : \A j \in built : j <= i

\* DirectionsPanel.handleStepClick on the i-th listed step, then
\* Index.handleStepClick with step.coordinates[0], then, when that array is
\* not the one zoomToCoordinates already holds, the render and the zoom
\* effect of MapView.  The panel of components/DirectionsPanel.tsx has no
\* click handler on its steps.
HandleStepClick(i) ==
  LET step == route[1].steps[i]
      target == Some([ ref |-> << RouteRef, i >>, value |-> step.coordinates[1] ])
      runs == target # zoomToCoordinates /\ MapReady IN
  /\ isDirectionsMode /\ panelVariant = "errors"
  /\ route # Null
  /\ i \in 1..Len(route[1].steps)
  /\ Len(step.coordinates) > 0
  /\ stepClicks < MaxStepClicks
  /\ stepClicks' = stepClicks + 1
  /\ selectedStepId' = Some(step.id)
  /\ zoomToCoordinates' = target
  /\ focusTimers' = focusTimers + 1
  /\ focusLog' = IF runs THEN focusLog + 1 ELSE focusLog
  /\ view' = IF runs
             THEN [ kind |-> "center", points |-> << LatLng(step.coordinates[1]) >>,
                    zoom |-> 18 ]
             ELSE view
  /\ UNCHANGED <<effectQ, layers, markersRef>>
  /\ UNCHANGED <<mapCfgVars, geoVars, toast, recentVars>>
  /\ UNCHANGED <<panelVariant, panelGen, indexVars, panelVars, calcVars, searchVars>>

\* A timer callback that leaves the focus target as it is.
ClearFocusKeepsTarget ==
  /\ focusTimers > 0
  /\ focusTimers' = focusTimers - 1
  /\ UNCHANGED <<zoomToCoordinates, selectedStepId, stepClicks, focusLog>>
  /\ UNCHANGED <<panelVariant, panelGen, indexVars, panelVars, calcVars, searchVars,
                 mapVars, recentVars>>

\* The oldest setTimeout(() => setZoomToCoordinates(null), 100) callback
\* runs; the zoom effect that follows a change to null does nothing.
ClearFocus ==
  /\ focusTimers > 0
  /\ focusTimers' = focusTimers - 1
  /\ zoomToCoordinates' = Null
  /\ UNCHANGED <<selectedStepId, stepClicks, focusLog>>
  /\ UNCHANGED <<panelVariant, panelGen, indexVars, panelVars, calcVars, searchVars,
                 mapVars, recentVars>>

\* ------------------------------------------------------ route calculation
\* The endpoints calculateRoute reads: the resolved actualOrigin /
\* actualDestination, or in the fallback panel the origin / destination props.
EndpointOrigin == IF panelVariant = "errors" THEN actualOrigin ELSE currentLocation
EndpointDestination == IF panelVariant = "errors" THEN actualDestination ELSE destination

\* routeData.legs[0].steps.map((step, index) => ...)
BuildStep(step, index) ==
  [ id |-> "step-" \o ToString(index),
    instruction |-> IF step.maneuver.instruction # Null
                    THEN step.maneuver.instruction[1]
                    ELSE <<"Step", " ", ToString(index + 1)>>,
    distance |-> step.distance,
    duration |-> step.duration,
    coordinates |-> step.geometry.coordinates ]

\* calculatedRoute
BuildRoute(o, d, routeData) ==
  [ id |-> "route-1", origin |-> o, destination |-> d,
    distance |-> routeData.distance,
    duration |-> routeData.duration,
    geometry |-> routeData.geometry.coordinates,
    steps |-> [ i \in 1..Len(routeData.legs[1].steps) |->
                  BuildStep(routeData.legs[1].steps[i], i - 1) ] ]

\* mockRoute without its first geometry point
MockRouteOffsetStart(o, d) ==
  [ id |-> "route-1", origin |-> o, destination |-> d,
    distance |-> MockDistance,
    duration |-> MockDuration,
    geometry |-> << << o.coordinates[1] + MockOffset, o.coordinates[2] + MockOffset >>,
                    << d.coordinates[1] - MockOffset, d.coordinates[2] - MockOffset >>,
                    d.coordinates >>,
    steps |-> << [ id |-> "step-1", instruction |-> <<"Head towards destination">>,
                   distance |-> MockDistance, duration |-> MockDuration,
                   coordinates |-> << o.coordinates, d.coordinates >> ] >> ]

\* mockRoute
MockRoute(o, d) ==
  [ id |-> "route-1", origin |-> o, destination |-> d,
    distance |-> MockDistance,
    duration |-> MockDuration,
    geometry |-> << o.coordinates,
                    << o.coordinates[1] + MockOffset, o.coordinates[2] + MockOffset >>,
                    << d.coordinates[1] - MockOffset, d.coordinates[2] - MockOffset >>,
                    d.coordinates >>,
    steps |-> << [ id |-> "step-1", instruction |-> <<"Head towards destination">>,
                   distance |-> MockDistance, duration |-> MockDuration,
                   coordinates |-> << o.coordinates, d.coordinates >> ] >> ]

\* Index.handleRouteCalculated
HandleRouteCalculated(calculatedRoute) ==
  route' = SetRoute(IndexState, calculatedRoute).route

\* calculateRoute without its test of the endpoints: a missing endpoint is
\* taken from a default place.
CalculateRouteUnguarded(outcome, snap) ==
  /\ isDirectionsMode
  /\ ~isCalculating
  /\ calcCount < MaxCalcs
  /\ calcCount' = calcCount + 1
  /\ isCalculating' = TRUE
  /\ routeError' = Null
  /\ calcs' = calcs \cup
       {[ inst |-> panelGen,
          origin |-> IF EndpointOrigin # Null THEN EndpointOrigin[1] ELSE LocHome,
          destination |-> IF EndpointDestination # Null
                          THEN EndpointDestination[1] ELSE LocPark,
          outcome |-> outcome, snap |-> snap ]}
  /\ UNCHANGED <<lastDone, doneLog, actualOrigin, actualDestination>>
  /\ UNCHANGED <<panelVariant, panelGen, indexVars, searchVars, mapVars, recentVars, focusVars>>

\* calculateRoute up to its fetch.  The button is disabled while an endpoint
\* is missing or a calculation of this panel instance is pending.  outcome
\* and snap are how the provider will answer this call.
CalculateRoute(outcome, snap) ==
  /\ isDirectionsMode
  /\ EndpointOrigin # Null /\ EndpointDestination # Null
  /\ ~isCalculating
  /\ calcCount < MaxCalcs
  /\ calcCount' = calcCount + 1
  /\ isCalculating' = TRUE
  /\ routeError' = Null
  /\ calcs' = calcs \cup
       {[ inst |-> panelGen, origin |-> EndpointOrigin[1],
          destination |-> EndpointDestination[1], outcome |-> outcome,
          snap |-> snap ]}
  /\ UNCHANGED <<lastDone, doneLog, actualOrigin, actualDestination>>
  /\ UNCHANGED <<panelVariant, panelGen, indexVars, searchVars, mapVars, recentVars, focusVars>>

\* What the rest of calculateRoute does once the fetch has settled, in the
\* panel of types/maps.ts: the message it sets (null: none) and the route it
\* hands to onRouteCalculated (null: none).
ErrorsPanelMessage(c) ==
  CASE c.outcome = "ok"        -> Null
    [] c.outcome = "noroute"   -> Some("NoRoute")
    [] c.outcome = "empty"     -> Some("Unable")
    [] OTHER                   -> Some("Failed")

\* the same with a distance that counts the calculations made so far
ErrorsPanelRouteCounted(c) ==
  IF c.outcome = "ok"
  THEN Some([ BuildRoute(c.origin, c.destination,
                         ProviderRoute(c.origin, c.destination, c.snap))
              EXCEPT !.distance = @ + calcCount ])
  ELSE Null

\* the same with the mock route handed over when the provider gave none
ErrorsPanelRouteFallsBack(c) ==
  IF c.outcome = "ok"
  THEN Some(BuildRoute(c.origin, c.destination, ProviderRoute(c.origin, c.destination, c.snap)))
  ELSE Some(MockRoute(c.origin, c.destination))

ErrorsPanelRoute(c) ==
  IF c.outcome = "ok"
  THEN Some(BuildRoute(c.origin, c.destination, ProviderRoute(c.origin, c.destination, c.snap)))
  ELSE Null

\* The same in the panel of components/DirectionsPanel.tsx: every path but
\* the successful one throws or rejects into the catch block.
FallbackPanelRouteParseUncaught(c) ==
  CASE c.outcome = "ok" ->
         Some(BuildRoute(c.origin, c.destination, ProviderRoute(c.origin, c.destination, c.snap)))
    [] c.outcome = "malformed" -> Null
    [] OTHER -> Some(MockRoute(c.origin, c.destination))

FallbackPanelRoute(c) ==
  IF c.outcome = "ok"
  THEN Some(BuildRoute(c.origin, c.destination, ProviderRoute(c.origin, c.destination, c.snap)))
  ELSE Some(MockRoute(c.origin, c.destination))

\* calculateRoute with setIsCalculating(false) at the end of the try block
\* instead of in a finally block
RouteDoneNoFinally(c) ==
  LET live == c.inst = panelGen /\ isDirectionsMode
      msg == IF panelVariant = "errors" THEN ErrorsPanelMessage(c) ELSE Null
      rt == IF panelVariant = "errors" THEN ErrorsPanelRoute(c) ELSE FallbackPanelRoute(c)
  IN
  /\ c \in calcs
  /\ calcs' = calcs \ {c}
  /\ lastDone' = c.outcome
  /\ doneLog' = Append(doneLog, [calc |-> c, route |-> rt, message |-> msg])
  /\ IF rt # Null THEN HandleRouteCalculated(rt[1]) ELSE route' = route
  /\ DrawAfterRender(Null, Null, rt, Null)
  /\ routeError' = IF live /\ msg # Null THEN msg ELSE routeError
  /\ isCalculating' = IF live /\ c.outcome # "error" THEN FALSE ELSE isCalculating
  /\ UNCHANGED <<calcCount, actualOrigin, actualDestination>>
  /\ UNCHANGED <<panelVariant, panelGen, selectedLocation, currentLocation,
                 isDirectionsMode, destination, searchVars>>
  /\ UNCHANGED <<mapCfgVars, geoVars, toast, recentVars, focusVars>>

\* The fetch of calculation c settles and calculateRoute runs to its end.
\* setRouteError and setIsCalculating of an unmounted instance do nothing;
\* onRouteCalculated reaches the Index state all the same.
RouteDone(c) ==
  LET live == c.inst = panelGen /\ isDirectionsMode
      msg == IF panelVariant = "errors" THEN ErrorsPanelMessage(c) ELSE Null
      rt == IF panelVariant = "errors" THEN ErrorsPanelRoute(c) ELSE FallbackPanelRoute(c)
  IN
  /\ c \in calcs
  /\ calcs' = calcs \ {c}
  /\ lastDone' = c.outcome
  /\ doneLog' = Append(doneLog, [calc |-> c, route |-> rt, message |-> msg])
  /\ IF rt # Null THEN HandleRouteCalculated(rt[1]) ELSE route' = route
  /\ DrawAfterRender(Null, Null, rt, Null)
  /\ routeError' = IF live /\ msg # Null THEN msg ELSE routeError
  /\ isCalculating' = IF live THEN FALSE ELSE isCalculating
  /\ UNCHANGED <<calcCount, actualOrigin, actualDestination>>
  /\ UNCHANGED <<panelVariant, panelGen, selectedLocation, currentLocation,
                 isDirectionsMode, destination, searchVars>>
  /\ UNCHANGED <<mapCfgVars, geoVars, toast, recentVars, focusVars>>

\* DirectionsPanel.handleOriginSelect / handleDestinationSelect: a candidate
\* of the box's list becomes the resolved endpoint.
HandleAutocompleteSelect(box, result) ==
  /\ isDirectionsMode
  /\ panelVariant = "errors"
  /\ box \in {"origin", "destination"}
  /\ InSeq(result, results[box])
  /\ actualOrigin' = IF box = "origin" THEN Some(result) ELSE actualOrigin
  /\ actualDestination' = IF box = "destination" THEN Some(result) ELSE actualDestination
  /\ inputText' = [inputText EXCEPT ![box] = result.address]
  /\ results' = [results EXCEPT ![box] = <<>>]
  /\ resultsGen' = [resultsGen EXCEPT ![box] = 0]
  /\ UNCHANGED <<isCalculating, routeError>>
  /\ UNCHANGED <<isLoading, timers, lookups, lastIssued, inputCount>>
  /\ UNCHANGED <<panelVariant, panelGen, indexVars, calcVars, mapVars, recentVars, focusVars>>

SearchNext ==
  \/ \E q \in Queries : HandleSearchInputChange(q)
  \/ \E o \in SearchOutcomes : DebounceFire(o)
  \/ \E b \in Boxes, q \in Queries, o \in SearchOutcomes :
        HandleAutocompleteInputChange(b, q, o)
  \/ \E r \in lookups : LookupDone(r)
  \/ HandleDirectionsToggle

\* The search box and the autocomplete inputs, with the panel of types/maps.ts.
SearchSpecInit ==
  Init /\ panelVariant = "errors" /\ mapVariant = "leaflet" /\ recentStore = <<>>

SearchSpec == SearchSpecInit /\ [][SearchNext]_vars

\* A mounted DirectionsPanel of either kind, with the endpoints it can hold:
\* the origin adopted from the current location, a destination picked from
\* the candidates (types/maps.ts) or passed as a prop.
RouteInitOn(variant) ==
  /\ panelVariant \in {"errors", "fallback"}
  /\ selectedLocation = Null
  /\ currentLocation \in {Null, Some(LocHome)}
  /\ isDirectionsMode = TRUE
  /\ panelGen = 1
  /\ route = Null
  /\ destination \in IF panelVariant = "fallback" THEN {Null, Some(LocPark)} ELSE {Null}
  /\ actualOrigin = IF panelVariant = "errors" THEN currentLocation ELSE Null
  /\ actualDestination \in IF panelVariant = "errors" THEN {Null, Some(LocPark)} ELSE {Null}
  /\ isCalculating = FALSE
  /\ routeError = Null
  /\ CalcInit /\ FocusInit
  /\ MapInit(variant)
  /\ recentSearches = <<>> /\ recentStore = <<>> /\ selectCount = 0
  /\ \E typed \in {<<>>, <<"Central">>} :
       inputText = [b \in Boxes |->
          CASE b = "origin" /\ currentLocation # Null -> LocHome.address
            [] b = "destination" /\ (destination # Null \/ actualDestination # Null)
                 -> LocPark.address
            [] b = "destination" /\ panelVariant = "errors" -> typed
            [] OTHER -> <<>>]
  /\ results = [b \in Boxes |-> <<>>]
  /\ isLoading = FALSE
  /\ timers = <<>>
  /\ lookups = {}
  /\ lastIssued = [b \in Boxes |-> 0]
  /\ resultsGen = [b \in Boxes |-> 0]
  /\ inputCount = 0

RouteInit == RouteInitOn("leaflet")

RouteNext ==
  \/ \E o \in RouteOutcomes, sn \in SnapOffsets :
        (o = "ok" \/ sn = 0) /\ CalculateRoute(o, sn)
  \/ \E c \in calcs : RouteDone(c)
  \/ \E ok \in BOOLEAN : MapInitDone(ok)
  \/ RunEffect
  \/ HandleDirectionsToggle

RouteSpec == RouteInit /\ [][RouteNext]_vars

\* The candidates a box lists after one answered lookup.
ListedCandidates == MapItems(ProviderItems(<<"Central">>))

\* The directions view with a route on the map: the panel of types/maps.ts
\* with both endpoints resolved, the Leaflet map loading, and the
\* destination box either empty-listed or listing the candidates of an
\* answered lookup for "Central".
DrawInit ==
  /\ panelVariant = "errors"
  /\ selectedLocation = Null
  /\ currentLocation = Some(LocHome)
  /\ isDirectionsMode = TRUE
  /\ panelGen = 1
  /\ route = Null
  /\ destination = Null
  /\ actualOrigin = currentLocation
  /\ actualDestination = Some(LocPark)
  /\ isCalculating = FALSE
  /\ routeError = Null
  /\ CalcInit /\ FocusInit
  /\ MapInit("leaflet")
  /\ recentSearches = <<>> /\ recentStore = <<>> /\ selectCount = 0
  /\ \E listed \in BOOLEAN :
       /\ inputText = [b \in Boxes |->
             CASE b = "origin" -> LocHome.address
               [] b = "destination" ->
                    IF listed THEN <<"Central">> ELSE LocPark.address
               [] OTHER -> <<>>]
       /\ results = [b \in Boxes |->
             IF b = "destination" /\ listed THEN ListedCandidates ELSE <<>>]
       /\ lastIssued = [b \in Boxes |-> IF b = "destination" /\ listed THEN 1 ELSE 0]
       /\ resultsGen = lastIssued
       /\ inputCount = IF listed THEN 1 ELSE 0
  /\ isLoading = FALSE
  /\ timers = <<>>
  /\ lookups = {}

DrawNext ==
  \/ \E o \in {"ok", "error"} : CalculateRoute(o, 0)
  \/ \E c \in calcs : RouteDone(c)
  \/ MapInitDone(TRUE)
  \/ RunEffect
  \/ \E p \in ClickPoints : MapClick(p, "ok")
  \/ \E r \in reverseLookups : ClickReverseDone(r, now)
  \/ GetCurrentLocation
  \/ \E pos \in DevicePositions : PositionFound(pos, "ok")
  \/ \E r \in reverseLookups : FixReverseDone(r)
  \/ \E res \in {ListedCandidates[i] : i \in 1..Len(ListedCandidates)} :
        HandleAutocompleteSelect("destination", res)

DrawSpec == DrawInit /\ [][DrawNext]_vars

\* The fallback panel of components/DirectionsPanel.tsx with each endpoint
\* prop one of the two Locations, the same one included.
FallbackInit ==
  /\ panelVariant = "fallback"
  /\ selectedLocation = Null
  /\ currentLocation \in {Some(LocHome), Some(LocPark)}
  /\ destination \in {Some(LocHome), Some(LocPark)}
  /\ isDirectionsMode = TRUE
  /\ panelGen = 1
  /\ route = Null
  /\ PanelInit /\ CalcInit /\ FocusInit
  /\ MapInit("leaflet")
  /\ recentSearches = <<>> /\ recentStore = <<>> /\ selectCount = 0
  /\ inputText = [b \in Boxes |->
        CASE b = "origin" -> currentLocation[1].address
          [] b = "destination" -> destination[1].address
          [] OTHER -> <<>>]
  /\ results = [b \in Boxes |-> <<>>]
  /\ isLoading = FALSE
  /\ timers = <<>>
  /\ lookups = {}
  /\ lastIssued = [b \in Boxes |-> 0]
  /\ resultsGen = [b \in Boxes |-> 0]
  /\ inputCount = 0

FallbackNext ==
  \/ \E o \in RouteOutcomes : CalculateRoute(o, 0)
  \/ \E c \in calcs : RouteDone(c)
  \/ \E ok \in BOOLEAN : MapInitDone(ok)
  \/ RunEffect

FallbackSpec == FallbackInit /\ [][FallbackNext]_vars

\* The directions view with a listed route whose steps are clicked.
StepInit == DrawInit /\ results["destination"] = <<>>

StepNext ==
  \/ CalculateRoute("ok", 0)
  \/ \E c \in calcs : RouteDone(c)
  \/ \E ok \in BOOLEAN : MapInitDone(ok)
  \/ RunEffect
  \/ \E i \in 1..2 : HandleStepClick(i)
  \/ ClearFocus
  \/ HandleDirectionsToggle

StepSpec == StepInit /\ [][StepNext]_vars

\* The same with every pending timer callback eventually run.
StepLiveSpec == StepSpec /\ WF_vars(ClearFocus)

\* The directions view of the panel of types/maps.ts, its endpoints
\* resolved, over either map view, with the routing provider, the device
\* and the reverse-geocoding provider answering every request made to them.
\* Calculations and position requests share the budget MaxCalcs.
BusyInit ==
  /\ \E v \in {"leaflet", "mapbox"} : RouteInitOn(v)
  /\ panelVariant = "errors"
  /\ EndpointOrigin # Null /\ EndpointDestination # Null

BusyNext ==
  \/ /\ calcCount + fixCount < MaxCalcs
     /\ \E o \in {"ok", "noroute", "error"} : CalculateRoute(o, 0)
  \/ \E c \in calcs : RouteDone(c)
  \/ HandleTokenSubmit
  \/ calcCount + fixCount < MaxCalcs /\ GetCurrentLocation
  \/ calcCount + fixCount < MaxCalcs /\ GeolocationUnsupported
  \/ \E pos \in DevicePositions, o \in {"ok", "error"} : PositionFound(pos, o)
  \/ \E code \in PositionErrors : PositionFailed(code)
  \/ \E r \in reverseLookups : FixReverseDone(r)
  \/ HandleDirectionsToggle

BusySpec ==
  /\ BusyInit /\ [][BusyNext]_vars
  /\ WF_vars(\E c \in calcs : RouteDone(c))
  /\ WF_vars(\/ \E pos \in DevicePositions, o \in {"ok", "error"} : PositionFound(pos, o)
             \/ \E code \in PositionErrors : PositionFailed(code))
  /\ WF_vars(\E r \in reverseLookups : FixReverseDone(r))

\* The directions view entered with a place selected that is also the
\* pending destination, its route calculated, its steps clicked, and the
\* directions toggle.
ToggleInitAt(gen) ==
  /\ panelVariant = "errors"
  /\ selectedLocation = Some(LocPark)
  /\ currentLocation = Some(LocHome)
  /\ isDirectionsMode = TRUE
  /\ panelGen = gen
  /\ route = Null
  /\ destination = Some(LocPark)
  /\ actualOrigin = currentLocation
  /\ actualDestination = destination
  /\ isCalculating = FALSE
  /\ routeError = Null
  /\ CalcInit /\ FocusInit
  /\ MapInit("leaflet")
  /\ recentSearches = <<>> /\ recentStore = <<>> /\ selectCount = 0
  /\ inputText = [b \in Boxes |->
        CASE b = "origin" -> LocHome.address
          [] b = "destination" -> LocPark.address
          [] OTHER -> <<>>]
  /\ results = [b \in Boxes |-> <<>>]
  /\ lastIssued = [b \in Boxes |-> 0]
  /\ resultsGen = [b \in Boxes |-> 0]
  /\ inputCount = 0
  /\ isLoading = FALSE
  /\ timers = <<>>
  /\ lookups = {}

ToggleInit == ToggleInitAt(1)

ToggleNext ==
  \/ \E o \in {"ok", "error"} : CalculateRoute(o, 0)
  \/ \E c \in calcs : RouteDone(c)
  \/ MapInitDone(TRUE)
  \/ RunEffect
  \/ \E i \in 1..2 : HandleStepClick(i)
  \/ ClearFocus
  \/ HandleDirectionsToggle

ToggleSpec == ToggleInit /\ [][ToggleNext]_vars

\* The directions view with both endpoints resolved and shown, the user
\* editing the inputs, picking candidates and asking for directions.
EditNext ==
  \/ \E b \in {"origin", "destination"}, q \in {<<>>, <<"Central">>} :
        HandleAutocompleteInputChange(b, q, "ok")
  \/ \E r \in lookups : LookupDone(r)
  \/ \E b \in {"origin", "destination"} :
        \E i \in 1..Len(results[b]) : HandleAutocompleteSelect(b, results[b][i])
  \/ CalculateRoute("ok", 0)
  \/ \E c \in calcs : RouteDone(c)

EditSpec == StepInit /\ [][EditNext]_vars

\* The same view as the first panel instance of the session, left and
\* entered again, the destination picked anew from the candidates.
ReentryInit == ToggleInitAt(0)

ReentryNext ==
  \/ CalculateRoute("ok", 0)
  \/ \E c \in calcs : RouteDone(c)
  \/ HandleDirectionsToggle
  \/ HandleAutocompleteInputChange("destination", <<"Central">>, "ok")
  \/ \E r \in lookups : LookupDone(r)
  \/ \E i \in 1..Len(results["destination"]) :
        HandleAutocompleteSelect("destination", results["destination"][i])

ReentrySpec == ReentryInit /\ [][ReentryNext]_vars

\* The search box with its candidates and the recent searches, the list
\* of earlier sessions empty or full.
RecentSpecInit ==
  /\ Init /\ panelVariant = "errors" /\ mapVariant = "leaflet"
  /\ recentStore \in {<<>>, FullRecents}

RecentNext ==
  \/ \E q \in {<<"Central">>, <<"Central", " ", "Park">>} : HandleSearchInputChange(q)
  \/ DebounceFire("ok")
  \/ \E r \in lookups : LookupDone(r)
  \/ \E i \in 1..Len(results["search"]) : HandleLocationClick(results["search"][i])
  \/ \E i \in 1..Len(recentSearches) : HandleRecentClick(recentSearches[i])

RecentSpec == RecentSpecInit /\ [][RecentNext]_vars

\* The page with its map: map clicks, the device position, picks from the
\* recent searches, the drawing callbacks and the directions toggle.
MapNext ==
  \/ \E ok \in BOOLEAN : MapInitDone(ok)
  \/ HandleTokenSubmit
  \/ \E p \in ClickPoints, o \in ReverseOutcomes : MapClick(p, o)
  \/ \E r \in reverseLookups, t \in 0..MaxClock : ClickReverseDone(r, t)
  \/ \E r \in reverseLookups : FixReverseDone(r)
  \/ GetCurrentLocation
  \/ \E pos \in DevicePositions, o \in ReverseOutcomes \ {"commafirst"} :
        PositionFound(pos, o)
  \/ \E code \in PositionErrors : PositionFailed(code)
  \/ \E l \in {LocPark, LocHome} : HandleRecentClick(l)
  \/ RunEffect
  \/ HandleDirectionsToggle

MapSpecInit ==
  Init /\ panelVariant = "errors" /\ recentStore = <<LocPark, LocHome>>

MapSpec == MapSpecInit /\ [][MapNext]_vars

\* ================================================================== claims
IsBlank(s) == \A i \in 1..Len(s) : s[i] \in Whitespace

\* A step commits a response to box b's visible list.
CommitsTo(b) == resultsGen'[b] # resultsGen[b] /\ resultsGen'[b] # 0

\* C1: a response is committed to a box's visible list only if it answers the
\* most recently issued request of that box; a response of a superseded
\* request is discarded.
C1_OnlyLatestCommitted ==
  [][\A b \in Boxes : CommitsTo(b) => resultsGen'[b] = lastIssued[b]]_vars

\* C2: a debounce timer issues a lookup only when no later input followed
\* within its window, that is when no later timer is pending as it expires.
C2_DebouncedLookup ==
  [][lastIssued'["search"] # lastIssued["search"] => Len(timers) = 1]_vars

\* C8: no lookup for a blank query is ever sent to the provider, and a
\* searchLocations call with a blank query leaves the box's list empty.
BlankSearchStep ==
  /\ timers # <<>> /\ timers' = Tail(timers)
  /\ IsBlank(Head(timers).query)
  /\ Head(timers).inst = panelGen /\ ~isDirectionsMode

BlankAutocompleteStep(b) ==
  /\ isDirectionsMode /\ isDirectionsMode'
  /\ inputText'[b] # inputText[b]
  /\ IsBlank(inputText'[b])

C8_BlankQueryNoCall ==
  /\ [](\A r \in lookups : ~IsBlank(r.query))
  /\ [][BlankSearchStep =>
          results'["search"] = <<>> /\ lookups' = lookups /\ lastIssued' = lastIssued]_vars
  /\ [][\A b \in {"origin", "destination"} : BlankAutocompleteStep(b) =>
          results'[b] = <<>> /\ lookups' = lookups /\ lastIssued' = lastIssued]_vars

\* C8 witness: a blank text was typed into the search box, its timer has
\* expired, and nothing was sent.
C8_Witness ==
  /\ inputText["search"] = <<" ">> /\ timers = <<>>
  /\ lookups = {} /\ lastIssued["search"] = 0 /\ results["search"] = <<>>

\* C9: when the provider fails a forward search, the box's committed list is
\* empty and the search box's loading indicator is reset.
FailedLookupDone(r) ==
  /\ r \in lookups /\ r \notin lookups'
  /\ r.outcome # "ok"
  /\ r.inst = panelGen /\ r.box \in MountedBoxes

C9_FailureYieldsEmpty ==
  [][\A r \in lookups : FailedLookupDone(r) =>
        /\ results'[r.box] = <<>>
        /\ r.box = "search" => ~isLoading']_vars

\* C9 witness: the search box shows the (empty) answer of a request that failed.
C9_Witness ==
  /\ resultsGen["search"] > 0 /\ results["search"] = <<>> /\ ~isLoading

\* A step in which calculation c runs to its end.
CalcEnds(c) == c \in calcs /\ c \notin calcs'
CalcLive(c) == c.inst = panelGen /\ isDirectionsMode

\* C3: when a directions request ends with no route found or with an unhandled
\* provider failure, a message is shown and the route is null afterwards,
\* also when an earlier calculation had installed a route.
C3_FailureClearsRoute ==
  [][\A c \in calcs :
        CalcEnds(c) /\ c.outcome # "ok" /\ panelVariant = "errors" =>
          /\ route' = Null
          /\ CalcLive(c) => routeError' # Null]_vars

\* C4: when the provider reports that no path exists (code "NoRoute" or no
\* routes), the condition is shown to the user and no route is committed in
\* its place.
C4_NoRouteNeverFallsBack ==
  [][\A c \in calcs :
        CalcEnds(c) /\ c.outcome \in {"noroute", "empty"} =>
          /\ route' = route
          /\ CalcLive(c) => routeError' \in {Some("NoRoute"), Some("Unable")}]_vars

\* C5: a network or parse failure of the routing call commits the fallback
\* route and shows no error when the fallback is enabled; with the fallback
\* disabled it shows the failure message and commits no route.
C5_FallbackPolicy ==
  [][\A c \in calcs :
        CalcEnds(c) /\ c.outcome \in {"error", "malformed"} =>
          IF panelVariant = "fallback"
          THEN /\ route' = Some(MockRoute(c.origin, c.destination))
               /\ routeError' = Null
          ELSE /\ route' = route
               /\ CalcLive(c) => routeError' = Some("Failed")]_vars

\* C5 witness: a calculation whose fetch failed has just ended, the fallback
\* panel showing the mock route.
C5_Witness ==
  /\ lastDone \in {"error", "malformed"}
  /\ panelVariant = "fallback"
  /\ route = Some(MockRoute(LocHome, LocPark))

\* The ids of the Locations the application holds.
HeldIds ==
  { o[1].id : o \in { x \in {selectedLocation, currentLocation, destination} : x # Null } }
    \cup { recentSearches[i].id : i \in 1..Len(recentSearches) }

\* C6: every reverse-geocoding call that ends delivers a Location, and when
\* the provider failed or named no address that Location has name and
\* address equal to the coordinate pair written with six decimals and an id
\* no Location held by the application carries.
C6_ReverseGeocodeNeverFails ==
  [][lastReverse' # lastReverse =>
       LET d == lastReverse'[1]
           pair == FormatCoords(d.req.lat, d.req.lng) IN
       /\ d.location # Null
       /\ d.req.outcome \in {"noname", "error"} =>
            /\ d.location[1].name = pair
            /\ d.location[1].address = pair
            /\ d.location[1].id \notin HeldIds]_vars

\* C7: the Location built for a reverse-geocoded point carries that point's
\* longitude and latitude unchanged, whatever the provider answered.
C7_CoordinatesPreserved ==
  lastReverse # Null /\ lastReverse[1].location # Null =>
    lastReverse[1].location[1].coordinates
      = << lastReverse[1].req.lng, lastReverse[1].req.lat >>

\* C7 witness: a map click whose reverse-geocoding call was rejected has
\* been delivered to Index with the clicked point, which no rounding to six
\* decimals would leave unchanged.
C7_Witness ==
  /\ lastReverse # Null
  /\ lastReverse[1].req.kind = "click" /\ lastReverse[1].req.outcome = "error"
  /\ lastReverse[1].req.lng = -739000006
  /\ selectedLocation = lastReverse[1].location
  /\ selectedLocation[1].coordinates = << -739000006, 408000000 >>

SelectedMarkers == SelectSeq(layers, LAMBDA l : l.role = "selected")

\* C10: once two selections have been made and every drawing callback has
\* run, the map shows exactly one selected marker, the one of the Location
\* that is selected.
C10_LastSelectionOneMarker ==
  ( /\ MapReady
    /\ clickCount + selectCount = 2
    /\ reverseLookups = {} /\ effectQ = <<>>
    /\ selectedLocation # Null )
  => SelectedMarkers
       = << MarkerLayer("selected", selectedLocation[1], selectedLocation[1].name) >>

RoutePolylines == SelectSeq(layers, LAMBDA l : l.role = "route")

\* C11: once the route is null and every drawing callback has run, no route
\* polyline is on the map.
C11_NullRouteNoPolyline ==
  (route = Null /\ effectQ = <<>>) => RoutePolylines = <<>>

CurrentMarkers == SelectSeq(layers, LAMBDA l : l.role = "current")

\* C12: the map never holds more than one selected marker nor more than one
\* current-location marker.
C12_OneMarkerPerRole ==
  Len(SelectedMarkers) <= 1 /\ Len(CurrentMarkers) <= 1

\* C13: while a route is set and every drawing callback has run, at most one
\* route polyline is on the map and it is the geometry of that route.
C13_SinglePolylineSlot ==
  (route # Null /\ effectQ = <<>>) =>
    /\ Len(RoutePolylines) <= 1
    /\ \A i \in 1..Len(RoutePolylines) : RoutePolylines[i] = PolylineLayer(route[1])

\* C14: no step takes a route polyline off the map while the route stays
\* set, and no step takes a current-location marker off the map.
C14_MarkersIndependentOfRoute ==
  [][/\ (route # Null /\ route' # Null) => Len(RoutePolylines') >= Len(RoutePolylines)
     /\ Len(CurrentMarkers') >= Len(CurrentMarkers)]_vars

\* C15: a step that selects a Location leaves the route null unless that
\* Location is the destination of the route that was set.
C15_SelectClearsRoute ==
  [][(selectedLocation' # selectedLocation /\ selectedLocation' # Null) =>
       ((route = Null \/ selectedLocation'[1] # route[1].destination)
          => route' = Null)]_vars

\* C16: in directions mode with no calculation pending, a route that is set
\* runs between the endpoints the panel currently holds.
C16_RouteMatchesEndpoints ==
  (isDirectionsMode /\ route # Null /\ calcs = {}) =>
    /\ EndpointOrigin = Some(route[1].origin)
    /\ EndpointDestination = Some(route[1].destination)

\* The first and the last point of a route's geometry are its endpoints.
EndsAtEndpoints(rt) ==
  /\ rt.geometry[1] = rt.origin.coordinates
  /\ rt.geometry[Len(rt.geometry)] = rt.destination.coordinates

\* C17 as stated: every route that is set starts at its origin's
\* coordinates and ends at its destination's coordinates.
C17_GeometryEndsAtEndpoints ==
  route # Null => EndsAtEndpoints(route[1])

\* C17, amended: a calculation that ends with a provider route commits the
\* endpoints it was started with and the provider's geometry point for
\* point, so that its ends are the provider's snapped waypoints; a
\* calculation that ends with the fallback route commits a geometry whose
\* ends are exactly the endpoints' coordinates.
C17_GeometryAsProvided ==
  [][\A c \in calcs : CalcEnds(c) =>
       IF c.outcome = "ok"
       THEN /\ route' # Null
            /\ route'[1].origin = c.origin /\ route'[1].destination = c.destination
            /\ route'[1].geometry
                 = ProviderRoute(c.origin, c.destination, c.snap).geometry.coordinates
            /\ route'[1].geometry[1] = Snapped(c.origin.coordinates, c.snap)
            /\ route'[1].geometry[Len(route'[1].geometry)]
                 = Snapped(c.destination.coordinates, c.snap)
       ELSE panelVariant = "fallback" =>
            /\ route' # Null
            /\ route'[1].origin = c.origin /\ route'[1].destination = c.destination
            /\ EndsAtEndpoints(route'[1])]_vars

\* C17 witness: a provider route is set whose geometry starts at the snapped
\* waypoint, off the origin's coordinates.
C17_Witness ==
  /\ lastDone = "ok" /\ route # Null
  /\ route[1].geometry[1] = Snapped(route[1].origin.coordinates, 30)
  /\ route[1].geometry[1] # route[1].origin.coordinates

\* The ids of steps st are step-0, step-1, ... in order.
SequentialIds(st) == \A i \in 1..Len(st) : st[i].id = "step-" \o ToString(i - 1)

\* C18: every calculation that commits a route commits at least one step,
\* the step ids being step-0, step-1, ... in order; for a provider route
\* the steps carry the provider's instruction, distance and duration in the
\* provider's order.
C18_SequentialSteps ==
  [][\A c \in calcs :
       (CalcEnds(c) /\ (c.outcome = "ok" \/ panelVariant = "fallback")) =>
         /\ route' # Null
         /\ Len(route'[1].steps) >= 1
         /\ SequentialIds(route'[1].steps)
         /\ c.outcome = "ok" =>
              LET st == route'[1].steps
                  ps == ProviderRoute(c.origin, c.destination, c.snap).legs[1].steps IN
              /\ Len(st) = Len(ps)
              /\ \A i \in 1..Len(ps) :
                   /\ st[i].distance = ps[i].distance
                   /\ st[i].duration = ps[i].duration
                   /\ ps[i].maneuver.instruction # Null =>
                        st[i].instruction = ps[i].maneuver.instruction[1]]_vars

\* C19: a calculation whose fetch or parse fails commits a route with exactly
\* one step, "Head towards destination", a geometry from the origin's to the
\* destination's coordinates, and a distance and duration that follow the
\* distance between the endpoints: both are 0 when the endpoints coincide.
C19_FallbackFollowsDistance ==
  [][\A c \in calcs :
       (CalcEnds(c) /\ panelVariant = "fallback" /\ c.outcome \in {"error", "malformed"}) =>
         /\ route' # Null
         /\ Len(route'[1].steps) = 1
         /\ route'[1].steps[1].instruction = <<"Head towards destination">>
         /\ EndsAtEndpoints(route'[1])
         /\ c.origin.coordinates = c.destination.coordinates =>
              route'[1].distance = 0 /\ route'[1].duration = 0]_vars

\* Two ended calculations had the same endpoints and the same answer.
SameCall(a, b) ==
  /\ a.calc.origin = b.calc.origin /\ a.calc.destination = b.calc.destination
  /\ a.calc.outcome = b.calc.outcome /\ a.calc.snap = b.calc.snap

FixDelivered ==
  /\ lastReverse' # lastReverse
  /\ lastReverse'[1].req.kind = "fix"
  /\ lastReverse'[1].location # Null

\* C21: delivering a device fix sets currentLocation to its Location, leaves
\* route and selectedLocation as they were, and moves the viewport only when
\* there was no current location before.
C21_FixRecentersOnce ==
  [][FixDelivered =>
       /\ currentLocation' = lastReverse'[1].location
       /\ route' = route /\ selectedLocation' = selectedLocation
       /\ currentLocation # Null => view' = view]_vars

\* A step of the list is clicked.
StepClicked == stepClicks' = stepClicks + 1

\* C22: every click on a step, with the map loaded, moves the viewport to
\* the step's first coordinate at zoom 18, also when the same step is
\* clicked again before the previous focus target was cleared.
C22_EveryStepClickCenters ==
  [][StepClicked /\ MapReady =>
       /\ focusLog' = focusLog + 1
       /\ view' = [ kind |-> "center",
                    points |-> << LatLng(zoomToCoordinates'[1].value) >>,
                    zoom |-> 18 ]]_vars

\* C29: the focus target does not stay set: from some point on
\* zoomToCoordinates is null, however the clicks and the pending clears
\* interleave.
C29_FocusEventuallyCleared == <>[](zoomToCoordinates = Null)

\* A later click's target is set while an earlier click's clear is pending.
C29_Witness ==
  /\ focusTimers = 2
  /\ stepClicks >= 2
  /\ zoomToCoordinates # Null

\* The device answers a position request with an error.
PositionFailedStep ==
  /\ positionReq # Null /\ positionReq' = Null
  /\ reverseLookups' = reverseLookups

\* C23: when the device position fails, the notification shown tells which
\* of the conditions occurred; selectedLocation, currentLocation, route and
\* destination are unchanged and no reverse lookup is sent.
C23_PositionFailureSurfaced ==
  [][PositionFailedStep =>
       /\ \E code \in PositionErrors :
            /\ toast' = Some(PositionErrorMessage(code))
            /\ \A other \in PositionErrors \ {code} :
                 PositionErrorMessage(other) # toast'[1]
       /\ UNCHANGED <<selectedLocation, currentLocation, route, destination>>
       /\ reverseLookups' = reverseLookups]_vars

\* The handler of a map click delivers its Location.
ClickDelivered ==
  /\ lastReverse' # lastReverse
  /\ lastReverse'[1].req.kind = "click"

\* C24: the Location of a map click becomes selectedLocation, and also the
\* pending destination when directions mode is on and a current location
\* exists at that moment, whenever these were set; otherwise the destination
\* keeps its value.
C24_ClickSetsDestination ==
  [][ClickDelivered =>
       /\ selectedLocation' = lastReverse'[1].location
       /\ destination' = IF isDirectionsMode /\ currentLocation # Null
                         THEN lastReverse'[1].location
                         ELSE destination]_vars

\* C25: the routing provider is called only from a state in which both
\* endpoints are resolved Locations, and with those Locations; while an
\* endpoint is unresolved, text typed in its box or not, no call is issued
\* and no calculation is started, and with no earlier call pending and the
\* panel kept, route and the error message stay as they are.
C25_CallNeedsBothEndpoints ==
  [][/\ calcCount' # calcCount =>
          /\ EndpointOrigin # Null /\ EndpointDestination # Null
          /\ \E c \in calcs' \ calcs :
               /\ c.origin = EndpointOrigin[1]
               /\ c.destination = EndpointDestination[1]
     /\ (EndpointOrigin = Null \/ EndpointDestination = Null) =>
          /\ calcs' \subseteq calcs /\ calcCount' = calcCount
          /\ isCalculating' => isCalculating
          /\ (calcs = {} /\ panelGen' = panelGen) =>
                route' = route /\ routeError' = routeError]_vars

\* A call is pending for the two resolved endpoints.
C25_Witness ==
  /\ isCalculating
  /\ EndpointOrigin # Null /\ EndpointDestination # Null
  /\ \E c \in calcs : /\ c.inst = panelGen
                      /\ c.origin = EndpointOrigin[1]
                      /\ c.destination = EndpointDestination[1]

\* Locations and routes the commits are applied with.
CommitLocations == {LocHome, LocPark}
CommitRoutes ==
  {BuildRoute(o, d, ProviderRoute(o, d, 0)) : o, d \in CommitLocations}
    \cup {MockRoute(o, d) : o, d \in CommitLocations}

\* C26: from every state of the page, handleCurrentLocationFound(loc) then
\* handleRouteCalculated(r) leaves the same state as the two in the other
\* order; handleLocationSelect(a) then handleLocationSelect(b) with a # b
\* leaves selectedLocation = b, which differs from the other order.
C26_FoundAndSetRouteCommute ==
  /\ \A loc \in CommitLocations, r \in CommitRoutes :
       SetRoute(FoundCurrentLocation(IndexState, loc), r)
         = FoundCurrentLocation(SetRoute(IndexState, r), loc)
  /\ \A a, b \in CommitLocations :
       LET ab == SelectLocation(SelectLocation(IndexState, a, isDirectionsMode,
                                               currentLocation),
                                b, isDirectionsMode, currentLocation)
           ba == SelectLocation(SelectLocation(IndexState, b, isDirectionsMode,
                                               currentLocation),
                                a, isDirectionsMode, currentLocation) IN
       /\ ab.selectedLocation = Some(b)
       /\ a # b => ab # ba

\* A fix was delivered and a calculation handed over its route.
C26_Witness ==
  /\ route # Null
  /\ doneLog # <<>>
  /\ lastReverse # Null /\ lastReverse[1].req.kind = "fix"
  /\ currentLocation = lastReverse[1].location
  /\ currentLocation # Some(LocHome)

\* C27: a raised busy flag is lowered again: every calculation started and
\* every position request started ends, whatever its outcome, with
\* isCalculating / isLoadingLocation false.
C27_BusyFlagsReset ==
  /\ isCalculating ~> ~isCalculating
  /\ isLoadingLocation ~> ~isLoadingLocation

\* A calculation ended in a provider failure and a position request in a
\* failure, and both flags are down.
C27_Witness ==
  /\ lastDone = "error" /\ calcs = {}
  /\ fixCount > 0 /\ positionReq = Null /\ reverseLookups = {}
  /\ toast # Null
  /\ ~isCalculating /\ ~isLoadingLocation

\* The part of a text before its first comma, the whole text without one.
BeforeComma(s) ==
  LET commas == {i \in 1..Len(s) : s[i] = ","} IN
  IF commas = {} THEN s
  ELSE SubSeq(s, 1, (CHOOSE i \in commas : \A j \in commas : i <= j) - 1)

\* The handler of a map click delivers the Location of an answer that
\* carries a display name.
NamedClickDelivered ==
  /\ ClickDelivered
  /\ lastReverse'[1].req.outcome \in {"ok", "commafirst"}

\* Every candidate of a forward search carries its display name as address
\* and the part before the first comma as name.
CandidatesSplit ==
  \A q \in Queries :
    LET items == ProviderItems(q) IN
    \A i \in 1..Len(items) :
      /\ MapItems(items)[i].address = items[i].display_name[1]
      /\ MapItems(items)[i].name = BeforeComma(items[i].display_name[1])

\* C28 as stated: the Location of a click answered with display name D has
\* address D, the part of D before its first comma as name and the clicked
\* coordinates; forward-search candidates are split the same way.
C28_NameIsBeforeComma ==
  [][NamedClickDelivered =>
       LET d == lastReverse'[1]
           D == ProviderReverse(d.req.lat, d.req.lng, d.req.outcome).display_name[1] IN
       /\ d.location[1].address = D
       /\ d.location[1].name = BeforeComma(D)
       /\ d.location[1].coordinates = << d.req.lng, d.req.lat >>
       /\ CandidatesSplit]_vars

\* C28 amended: the same, with the name "Selected Location" when D has
\* nothing before its first comma; a forward-search candidate keeps the
\* empty name in that case.
C28_NameIsBeforeCommaOrLabel ==
  [][NamedClickDelivered =>
       LET d == lastReverse'[1]
           D == ProviderReverse(d.req.lat, d.req.lng, d.req.outcome).display_name[1] IN
       /\ d.location[1].address = D
       /\ d.location[1].name = IF BeforeComma(D) # <<>> THEN BeforeComma(D)
                               ELSE <<"Selected Location">>
       /\ d.location[1].coordinates = << d.req.lng, d.req.lat >>
       /\ selectedLocation' = d.location
       /\ CandidatesSplit]_vars

\* The click answered "123 Main St, NYC" is selected under the name
\* "123 Main St".
C28_Witness ==
  /\ lastReverse # Null
  /\ lastReverse[1].req.kind = "click" /\ lastReverse[1].req.outcome = "ok"
  /\ selectedLocation = lastReverse[1].location
  /\ selectedLocation[1].name = <<"123 Main St">>
  /\ selectedLocation[1].address = <<"123 Main St", ",", " ", "NYC">>

\* The second of two map clicks' lookups is answered, the other one, of a
\* click at another point, having been answered just before.
BothClicksAnswered ==
  /\ clickCount = 2 /\ selectCount = 0
  /\ lastReverse # Null /\ lastReverse[1].req.kind = "click"
  /\ ClickDelivered
  /\ lastReverse'[1].req.lat # lastReverse[1].req.lat
  /\ \A r \in reverseLookups' : r.kind # "click"

\* C30: after a click at A and a later click at B, once both lookups are
\* answered selectedLocation is the Location of the click at B, in whichever
\* order the answers came.
C30_LaterClickSelected ==
  [][BothClicksAnswered =>
       LET later == IF lastReverse'[1].req.n > lastReverse[1].req.n
                    THEN lastReverse'[1] ELSE lastReverse[1] IN
       selectedLocation' = later.location]_vars

\* A calculation started by a panel instance that the toggle has since
\* unmounted runs to its end.
StaleCalcEnds ==
  /\ Len(doneLog') = Len(doneLog) + 1
  /\ doneLog'[Len(doneLog')].calc.inst # panelGen

\* C31: a calculation that was in flight when the directions toggle cleared
\* the route never installs its result: when it ends, route is left as it
\* is.
C31_StaleCalcNeverInstalls ==
  [][StaleCalcEnds => route' = route]_vars

\* C32: a calculation that ends has either handed a route to
\* onRouteCalculated, which is then the page's route, with no message set,
\* or set a message and handed over no route, the page's route being left
\* as it was; a mounted panel shows what its calculation set.  A request
\* that starts clears the message.
C32_RouteOrMessage ==
  [][/\ \A c \in calcs :
          CalcEnds(c) =>
            LET e == doneLog'[Len(doneLog')] IN
            \/ /\ e.route # Null /\ e.message = Null
               /\ route' = e.route
               /\ CalcLive(c) => routeError' = Null
            \/ /\ e.route = Null /\ e.message # Null
               /\ route' = route
               /\ CalcLive(c) => routeError' = e.message
     /\ calcCount' # calcCount => routeError' = Null]_vars

\* A request has started in the panel whose previous request ended with a
\* message, and the message is gone.
C32_Witness ==
  /\ panelVariant = "errors"
  /\ isCalculating /\ routeError = Null
  /\ doneLog # <<>>
  /\ doneLog[Len(doneLog)].message # Null
  /\ doneLog[Len(doneLog)].calc.inst = panelGen

\* The directions toggle is pressed.
ToggleStep == panelGen' = panelGen + 1

\* C33: the directions toggle flips isDirectionsMode, sets route and
\* destination to null and leaves selectedLocation, currentLocation and the
\* focus target as they are; destination is non-null only in directions
\* mode.
C33_ToggleFrame ==
  /\ [][ToggleStep =>
          /\ isDirectionsMode' = ~isDirectionsMode
          /\ route' = Null /\ destination' = Null
          /\ UNCHANGED <<selectedLocation, currentLocation, zoomToCoordinates>>]_vars
  /\ [](destination # Null => isDirectionsMode)

\* Directions mode was left with a route listed and a step focused: route
\* and destination are null, the selection, the current location and the
\* focus target are kept.
C33_Witness ==
  /\ panelGen = 2 /\ ~isDirectionsMode
  /\ stepClicks > 0
  /\ route = Null /\ destination = Null
  /\ selectedLocation = Some(LocPark) /\ currentLocation = Some(LocHome)
  /\ zoomToCoordinates # Null

\* C34: a directions request is sent for the Locations whose addresses the
\* origin and destination inputs show at that moment.
C34_RequestForShownEndpoints ==
  [][calcCount' # calcCount =>
       /\ EndpointOrigin # Null /\ EndpointDestination # Null
       /\ inputText["origin"] = EndpointOrigin[1].address
       /\ inputText["destination"] = EndpointDestination[1].address]_vars

\* C35: with no lookup in flight and no debounce timer pending, a mounted
\* input whose text is empty or blank lists no candidates.
C35_BlankInputListsNothing ==
  (lookups = {} /\ timers = <<>>) =>
    \A b \in MountedBoxes : IsBlank(inputText[b]) => results[b] = <<>>

\* C36: at most one route calculation is in flight, also after directions
\* mode was left and entered again.
C36_OneCalculationInFlight == Cardinality(calcs) <= 1

\* A candidate of the search box is picked / an entry of the recent list is
\* picked.
CandidatePicked == selectCount' = selectCount + 1 /\ results' # results
RecentPicked == selectCount' = selectCount + 1 /\ results' = results

\* C37: the recent searches are at most 5, no two of them with the same id;
\* a picked candidate is first in the list afterwards, and picking an entry
\* of the list leaves the list as it is.
C37_RecentSearchesList ==
  /\ [](/\ Len(recentSearches) <= 5
        /\ \A i, j \in 1..Len(recentSearches) :
             recentSearches[i].id = recentSearches[j].id => i = j)
  /\ [][CandidatePicked =>
          /\ recentSearches' # <<>>
          /\ Some(Head(recentSearches')) = selectedLocation'
          /\ recentStore' = recentSearches']_vars
  /\ [][RecentPicked => recentSearches' = recentSearches]_vars

\* A candidate was picked into a full list: it is first, the list still
\* holds 5 and has lost its last entry.
C37_Witness ==
  /\ Len(recentSearches) = 5
  /\ selectCount > 0
  /\ selectedLocation = Some(recentSearches[1])
  /\ recentSearches[1].id = "1"
  /\ \A i \in 1..5 : recentSearches[i] # StoredPlace(102)


====
